---- MODULE Spec2Model ----
(***************************************************************************)
(* Persistence layer of the veterinary check-in system                     *)
(* (src/vetCheckinSystem.py): the Animal record with its validation, and   *)
(* VeterinaryDatabase with its scoped connection, table creation and the   *)
(* add / get / discharge operations over the SQLite table "checkups".      *)
(*                                                                         *)
(* The program is single-threaded and every operation runs to completion,  *)
(* so each public operation is one action.  The storage environment may    *)
(* fail at any step of an operation; the step that fails is an input of    *)
(* the action.                                                             *)
(***************************************************************************)
EXTENDS Integers, Sequences, FiniteSets, TLC

VARIABLES
    table,      \* "ABSENT" or "EXISTS": the checkups table in the database file
    rows,       \* committed rows of checkups: id -> <<id, species, name, owner, age, checkup_reason>>
    seq,        \* sqlite_sequence entry of checkups: the largest id ever committed
    stores,     \* TRUE once the construction of a VeterinaryDatabase object has returned
    openConns,  \* connections opened and not yet closed
    animal,     \* the Animal object handed to the last validate/add_animal, after the call
    lastOp,     \* the operation that ran last
    lastArg,    \* its argument as it was before the call (an Animal, [animal_id |-> id])
    lastFail,   \* the step at which the storage failed during it ("none": it did not)
    lastRet,    \* what it returned, tagged with its type (Raised when it raised)
    lastExc,    \* the exception that left it ("none": it returned)
    lastConns,  \* connections it opened
    assigned,   \* ids returned by successful add_animal calls, in call order
    discharged, \* ids for which discharge_animal returned True
    before      \* table, rows, seq and stores as they were when the last operation began

vars == <<table, rows, seq, stores, openConns, animal, lastOp, lastArg,
          lastFail, lastRet, lastExc, lastConns, assigned, discharged, before>>

(* Bounds of the model. *)
MaxId == 3

(* Optional[...] values: None and a present value. *)
None == <<>>
Some(x) == <<x>>

(* What an operation hands back to its caller: a value, or nothing when    *)
(* an exception leaves it.                                                 *)
RetNone == [type |-> "None"]
RetInt(x) == [type |-> "int", value |-> x]
RetDict(d) == [type |-> "dict", value |-> d]
RetBool(b) == [type |-> "bool", value |-> b]
Raised == [type |-> "raised"]

(* The argument of an operation that takes an id; of one that takes none. *)
IdArg(id) == [animal_id |-> id]
NoArgs == <<>>

(* Exceptions that can leave a block. *)
NoExc == "none"
SqliteError == "sqlite3.Error"
UnboundLocal == "UnboundLocalError"

(* Steps of an operation at which the storage can fail. *)
FailPoints == {"none", "connect", "execute", "commit"}
QueryFailPoints == {"none", "connect", "execute"}

(* Field values the controller may hand over. *)
SpeciesValues == {"", "Dog"}
NameValues == {"", "Rex", "Tom"}
OwnerValues == {"", "Ana"}
AgeValues == {-1, 0, 4}
ReasonValues == {"", "vaccination"}

(* Animal objects as the caller builds them: no id yet. *)
Animals ==
    [species : SpeciesValues, name : NameValues, owner : OwnerValues,
     age : AgeValues, checkup_reason : ReasonValues, id : {None}]

(* Animal objects that may be validated: new ones, and ones that were     *)
(* given an id by an earlier add_animal.                                   *)
AnyAnimals ==
    [species : SpeciesValues, name : NameValues, owner : OwnerValues,
     age : AgeValues, checkup_reason : ReasonValues,
     id : {None} \cup {Some(i) : i \in 1 .. MaxId}]

(* Animal objects handed to add_animal: every field filled in, or exactly  *)
(* one left empty or zero (negative ages are exercised by SpecValidate).   *)
Falsy(a) ==
    {f \in {"species", "name", "owner", "checkup_reason"} : a[f] = ""}
        \cup (IF a.age = 0 THEN {"age"} ELSE {})
AddInputs == {a \in Animals : Cardinality(Falsy(a)) <= 1 /\ a.age >= 0}

(* Ids a caller may ask for: assigned ones, and ones never assigned. *)
AnimalIds == 0 .. (MaxId + 1)

----------------------------------------------------------------------------
(* Animal.validate *)

TruthyStr(s) == s # ""
TruthyInt(n) == n # 0
All(list) == \A i \in DOMAIN list : list[i]

(* Variant of validate that leaves age out of the list. *)
ValidateIgnoringAge(a) ==
    All(<<TruthyStr(a.species), TruthyStr(a.name), TruthyStr(a.owner),
          TruthyStr(a.checkup_reason)>>)

Validate(a) ==
    All(<<TruthyStr(a.species), TruthyStr(a.name), TruthyStr(a.owner),
          TruthyInt(a.age), TruthyStr(a.checkup_reason)>>)

----------------------------------------------------------------------------
(* VeterinaryDatabase._get_connection *)

(* sqlite3.connect: the number of connections it opens. *)
ConnOpen(fail) == IF fail = "connect" THEN 0 ELSE 1

(* What is raised inside the try block: by connect itself, or by the body  *)
(* of the with statement, thrown in at the yield.  The except clause logs  *)
(* and re-raises it unchanged.                                             *)
ConnRaised(fail) == IF fail = "none" THEN NoExc ELSE SqliteError

(* Variant of the with block that closes after the yield, outside finally. *)
ConnFinallyCloseOnSuccessOnly(bound, exc) ==
    IF ~bound THEN [exc |-> UnboundLocal, closed |-> 0]
    ELSE IF exc = NoExc THEN [exc |-> exc, closed |-> 1]
    ELSE [exc |-> exc, closed |-> 0]

(* The finally clause: conn.close().  When connect raised, conn was never  *)
(* bound, and the close raises UnboundLocalError in place of the error     *)
(* being propagated.                                                       *)
ConnFinally(bound, exc) ==
    IF bound THEN [exc |-> exc, closed |-> 1]
    ELSE [exc |-> UnboundLocal, closed |-> 0]

(* The whole with block: the exception that leaves it, the connections it  *)
(* opened, and those it left open.                                         *)
GetConnection(fail) ==
    LET opened == ConnOpen(fail)
        fin == ConnFinally(opened = 1, ConnRaised(fail))
    IN  [exc |-> fin.exc, opened |-> opened, open |-> opened - fin.closed]

(* "except sqlite3.Error: ... return sentinel" of add/get/discharge. *)
CatchSqliteError(exc, sentinel) ==
    IF exc = SqliteError THEN [ret |-> sentinel, exc |-> NoExc]
    ELSE [ret |-> Raised, exc |-> exc]

----------------------------------------------------------------------------
(* The table *)

NoRows == <<>>

MaxKey(rws) ==
    IF DOMAIN rws = {} THEN 0
    ELSE CHOOSE m \in DOMAIN rws : \A k \in DOMAIN rws : k <= m

Max(a, b) == IF a >= b THEN a ELSE b

(* Variant of the schema with a plain INTEGER PRIMARY KEY. *)
NextRowidWithoutAutoincrement(rws, sq) == MaxKey(rws) + 1

(* id INTEGER PRIMARY KEY AUTOINCREMENT: one more than the largest id the  *)
(* table ever held.                                                        *)
NextRowid(rws, sq) == Max(sq, MaxKey(rws)) + 1

(* Variant of the statement that drops and recreates the table. *)
CreateTableDropFirst(tbl, rws, sq) ==
    [table |-> "EXISTS", rows |-> NoRows, seq |-> 0]

(* CREATE TABLE IF NOT EXISTS checkups (...) *)
CreateTable(tbl, rws, sq) ==
    IF tbl = "ABSENT" THEN [table |-> "EXISTS", rows |-> NoRows, seq |-> 0]
    ELSE [table |-> tbl, rows |-> rws, seq |-> sq]

(* Variant of the INSERT with the name and owner parameters exchanged. *)
InsertRowOwnerNameSwapped(id, a) ==
    <<id, a.species, a.owner, a.name, a.age, a.checkup_reason>>

(* INSERT INTO checkups (species, name, owner, age, checkup_reason)        *)
(* VALUES (?, ?, ?, ?, ?): the stored row, in the schema's column order.   *)
InsertRow(id, a) ==
    <<id, a.species, a.name, a.owner, a.age, a.checkup_reason>>

(* SELECT * ... fetchone(): the row, or None. *)
SelectById(rws, id) == IF id \in DOMAIN rws THEN Some(rws[id]) ELSE None

(* The dictionary built from result[0] .. result[5]. *)
RowToDict(result) ==
    [id |-> result[1], species |-> result[2], name |-> result[3],
     owner |-> result[4], age |-> result[5], checkup_reason |-> result[6]]

(* DELETE FROM checkups WHERE id = ?, committed. *)
DeleteById(rws, id) == [i \in (DOMAIN rws) \ {id} |-> rws[i]]
RowCount(rws, id) == IF id \in DOMAIN rws THEN 1 ELSE 0

----------------------------------------------------------------------------
(* VeterinaryDatabase operations *)

(* Variant of the handler that logs without re-raising. *)
CreateTableExceptSwallow(exc) == NoExc

(* _create_table's "except sqlite3.Error: ... raise". *)
CreateTableExcept(exc) == exc

Init ==
    /\ table = "ABSENT"
    /\ rows = NoRows
    /\ seq = 0
    /\ stores = FALSE
    /\ openConns = 0
    /\ animal = None
    /\ lastOp = "start"
    /\ lastArg = NoArgs
    /\ lastFail = "none"
    /\ lastRet = RetNone
    /\ lastExc = NoExc
    /\ lastConns = 0
    /\ assigned = <<>>
    /\ discharged = {}
    /\ before = [table |-> "ABSENT", rows |-> NoRows, seq |-> 0, stores |-> FALSE]

(* The storage and the stores as an operation finds them. *)
Snapshot == [table |-> table, rows |-> rows, seq |-> seq, stores |-> stores]

(* VeterinaryDatabase(db_name): __init__ runs _create_table.  The CREATE   *)
(* statement runs outside a transaction, so when the commit after it       *)
(* fails the table may already be there.                                   *)
Construct(fail) ==
    LET c == GetConnection(fail)
        exc == CreateTableExcept(c.exc)
        created == CreateTable(table, rows, seq)
    IN  /\ \E done \in (IF fail = "none" THEN {TRUE}
                        ELSE IF fail = "commit" THEN {TRUE, FALSE}
                        ELSE {FALSE}) :
              /\ table' = IF done THEN created.table ELSE table
              /\ rows' = IF done THEN created.rows ELSE rows
              /\ seq' = IF done THEN created.seq ELSE seq
        /\ stores' = IF exc = NoExc THEN TRUE ELSE stores
        /\ openConns' = openConns + c.open
        /\ lastOp' = "init"
        /\ lastArg' = NoArgs
        /\ lastFail' = fail
        /\ lastRet' = IF exc = NoExc THEN RetNone ELSE Raised
        /\ lastExc' = exc
        /\ lastConns' = c.opened
        /\ before' = Snapshot
        /\ UNCHANGED <<animal, assigned, discharged>>

(* Animal.validate on an object the caller built. *)
ValidateAnimal(a) ==
    /\ animal' = a
    /\ lastOp' = "validate"
    /\ lastArg' = a
    /\ lastFail' = "none"
    /\ lastRet' = RetBool(Validate(a))
    /\ lastExc' = NoExc
    /\ lastConns' = 0
    /\ before' = Snapshot
    /\ UNCHANGED <<table, rows, seq, stores, openConns, assigned, discharged>>

(* Variant of add_animal without the validation. *)
AddAnimalOutcomeNoValidation(a, fail, rws, sq) ==
    LET c == GetConnection(fail)
        id == NextRowid(rws, sq)
        h == CatchSqliteError(c.exc, RetNone)
    IN  IF fail = "none"
        THEN [ret |-> RetInt(id), exc |-> NoExc, rows |-> (id :> InsertRow(id, a)) @@ rws,
              seq |-> id, animal |-> [a EXCEPT !.id = Some(id)],
              opened |-> c.opened, open |-> c.open, failed |-> fail]
        ELSE [ret |-> h.ret, exc |-> h.exc, rows |-> rws, seq |-> sq,
              animal |-> a, opened |-> c.opened, open |-> c.open, failed |-> fail]

(* add_animal: what it returns or raises, the table after it, the Animal   *)
(* object after it and the connections it used.  An insert whose commit    *)
(* did not succeed is rolled back when the connection is closed.           *)
AddAnimalOutcome(a, fail, rws, sq) ==
    IF ~Validate(a)
    THEN [ret |-> RetNone, exc |-> NoExc, rows |-> rws, seq |-> sq, animal |-> a,
          opened |-> 0, open |-> 0, failed |-> "none"]
    ELSE LET c == GetConnection(fail)
             id == NextRowid(rws, sq)
             h == CatchSqliteError(c.exc, RetNone)
         IN  IF fail = "none"
             THEN [ret |-> RetInt(id), exc |-> NoExc,
                   rows |-> (id :> InsertRow(id, a)) @@ rws,
                   seq |-> id, animal |-> [a EXCEPT !.id = Some(id)],
                   opened |-> c.opened, open |-> c.open, failed |-> fail]
             ELSE [ret |-> h.ret, exc |-> h.exc, rows |-> rws, seq |-> sq,
                   animal |-> a, opened |-> c.opened, open |-> c.open,
                   failed |-> fail]

AddAnimal(a, fail) ==
    LET o == AddAnimalOutcome(a, fail, rows, seq)
    IN  /\ stores
        /\ seq < MaxId
        /\ rows' = o.rows
        /\ seq' = o.seq
        /\ animal' = o.animal
        /\ openConns' = openConns + o.open
        /\ lastOp' = "add"
        /\ lastArg' = a
        /\ lastFail' = o.failed
        /\ lastRet' = o.ret
        /\ lastExc' = o.exc
        /\ lastConns' = o.opened
        /\ assigned' = IF o.ret.type = "int"
                       THEN Append(assigned, o.ret.value) ELSE assigned
        /\ before' = Snapshot
        /\ UNCHANGED <<table, stores, discharged>>

(* get_animal_info *)
GetAnimalInfoOutcome(id, fail, rws) ==
    LET c == GetConnection(fail)
        result == SelectById(rws, id)
        h == CatchSqliteError(c.exc, RetNone)
    IN  IF fail = "none"
        THEN [ret |-> IF result # None THEN RetDict(RowToDict(result[1])) ELSE RetNone,
              exc |-> NoExc, opened |-> c.opened, open |-> c.open]
        ELSE [ret |-> h.ret, exc |-> h.exc, opened |-> c.opened, open |-> c.open]

GetAnimalInfo(id, fail) ==
    LET o == GetAnimalInfoOutcome(id, fail, rows)
    IN  /\ stores
        /\ openConns' = openConns + o.open
        /\ lastOp' = "get"
        /\ lastArg' = IdArg(id)
        /\ lastFail' = fail
        /\ lastRet' = o.ret
        /\ lastExc' = o.exc
        /\ lastConns' = o.opened
        /\ before' = Snapshot
        /\ UNCHANGED <<table, rows, seq, stores, animal, assigned, discharged>>

(* discharge_animal: a delete whose commit did not succeed is rolled back  *)
(* when the connection is closed.                                          *)
DischargeAnimalOutcome(id, fail, rws) ==
    LET c == GetConnection(fail)
        h == CatchSqliteError(c.exc, RetBool(FALSE))
    IN  IF fail = "none"
        THEN [ret |-> RetBool(RowCount(rws, id) > 0), exc |-> NoExc, rows |-> DeleteById(rws, id),
              opened |-> c.opened, open |-> c.open]
        ELSE [ret |-> h.ret, exc |-> h.exc, rows |-> rws,
              opened |-> c.opened, open |-> c.open]

DischargeAnimal(id, fail) ==
    LET o == DischargeAnimalOutcome(id, fail, rows)
    IN  /\ stores
        /\ rows' = o.rows
        /\ openConns' = openConns + o.open
        /\ lastOp' = "discharge"
        /\ lastArg' = IdArg(id)
        /\ lastFail' = fail
        /\ lastRet' = o.ret
        /\ lastExc' = o.exc
        /\ lastConns' = o.opened
        /\ discharged' = IF o.ret = RetBool(TRUE)
                         THEN discharged \cup {id} ELSE discharged
        /\ before' = Snapshot
        /\ UNCHANGED <<table, seq, stores, animal, assigned>>

Next ==
    \/ \E fail \in FailPoints : Construct(fail)
    \/ \E a \in AddInputs, fail \in FailPoints : AddAnimal(a, fail)
    \/ \E id \in AnimalIds, fail \in QueryFailPoints : GetAnimalInfo(id, fail)
    \/ \E id \in AnimalIds, fail \in FailPoints : DischargeAnimal(id, fail)

Spec == Init /\ [][Next]_vars

(* Animal.validate alone, applied to every Animal object of the domain. *)
NextValidate == \E a \in AnyAnimals : ValidateAnimal(a)

SpecValidate == Init /\ [][NextValidate]_vars

----------------------------------------------------------------------------
(* Properties *)

(* Every required field of the Animal is a non-empty string, and its age   *)
(* is not zero.                                                            *)
FieldsFilled(a) ==
    /\ a.species # ""
    /\ a.name # ""
    /\ a.owner # ""
    /\ a.age # 0
    /\ a.checkup_reason # ""

(* The dictionary get_animal_info is expected to return for Animal a       *)
(* stored under id.                                                        *)
ExpectedInfo(id, a) ==
    [id |-> id, species |-> a.species, name |-> a.name, owner |-> a.owner,
     age |-> a.age, checkup_reason |-> a.checkup_reason]

(* C1: no exception ever leaves add_animal, get_animal_info or             *)
(* discharge_animal: whatever step of the call the storage fails at, the   *)
(* call returns (its sentinel) instead of raising.                         *)
C1_NoExceptionEscapes ==
    lastOp \in {"add", "get", "discharge"} => lastExc = NoExc

(* C2: whenever an operation (initialize, add_animal, get_animal_info,     *)
(* discharge_animal) has returned or raised, no storage connection is      *)
(* open: every connection it opened has been closed.                       *)
C2_NoOpenConnection == openConns = 0

C2_Witness ==
    /\ lastOp = "discharge"
    /\ lastFail = "commit"
    /\ lastConns = 1
    /\ assigned # <<>>

(* C3: the ids returned by successful add_animal calls are strictly        *)
(* increasing in call order, hence pairwise distinct and never reused,     *)
(* also when rows were deleted in between.                                 *)
C3_IdsStrictlyIncreasing ==
    \A i, j \in DOMAIN assigned : i < j => assigned[i] < assigned[j]

C3_Witness ==
    /\ lastOp = "add"
    /\ lastExc = NoExc
    /\ Len(assigned) = 2
    /\ lastRet = RetInt(assigned[2])
    /\ assigned[1] \in discharged
    /\ DOMAIN rows = {assigned[2]}

(* C4: add_animal of a valid Animal without id, with no storage failure,   *)
(* returns an id X, sets the Animal's id to X and changes nothing else of  *)
(* it, and get_animal_info(X) run next returns the Animal's species, name, *)
(* owner, age and checkup_reason together with id X.                       *)
C4_AddThenGetRoundTrip ==
    (lastOp = "add" /\ FieldsFilled(lastArg) /\ lastFail = "none") =>
        /\ lastExc = NoExc
        /\ lastRet.type = "int"
        /\ lastArg.id = None
        /\ animal = [lastArg EXCEPT !.id = Some(lastRet.value)]
        /\ LET g == GetAnimalInfoOutcome(lastRet.value, "none", rows)
           IN  /\ g.exc = NoExc
               /\ g.ret = RetDict(ExpectedInfo(lastRet.value, lastArg))

C4_Witness ==
    /\ lastOp = "add"
    /\ lastFail = "none"
    /\ lastArg.name = "Tom"
    /\ lastRet = RetInt(2)
    /\ animal.id = Some(2)
    /\ GetAnimalInfoOutcome(2, "none", rows).ret = RetDict(ExpectedInfo(2, lastArg))

(* C5: add_animal of an Animal that fails validation returns None, raises  *)
(* nothing, opens no connection and leaves the rows of the table, the id   *)
(* counter and the Animal as they were.                                    *)
C5_InvalidAddWritesNothing ==
    (lastOp = "add" /\ ~FieldsFilled(lastArg)) =>
        /\ lastRet = RetNone
        /\ lastExc = NoExc
        /\ lastConns = 0
        /\ rows = before.rows
        /\ seq = before.seq
        /\ animal = lastArg

C5_Witness ==
    /\ lastOp = "add"
    /\ lastArg.name = ""
    /\ lastRet = RetNone
    /\ lastConns = 0
    /\ rows # NoRows
    /\ rows = before.rows

(* C6: discharge_animal(X) of a present id X, with no storage failure,     *)
(* returns True and removes the row for good: no row has a discharged id   *)
(* again, and every get_animal_info of a discharged id, whatever was       *)
(* added or discharged in between, returns None (not found).               *)
C6_DischargeIsPermanent ==
    /\ (lastOp = "discharge" /\ lastFail = "none" /\ lastArg.animal_id \in DOMAIN before.rows) =>
           /\ lastExc = NoExc
           /\ lastRet = RetBool(TRUE)
           /\ lastArg.animal_id \notin DOMAIN rows
    /\ discharged \cap DOMAIN rows = {}
    /\ (lastOp = "get" /\ lastArg.animal_id \in discharged) =>
           /\ lastExc = NoExc
           /\ lastRet = RetNone

(* The part of C6 that holds of the code: the removal is permanent, and a  *)
(* get_animal_info of a discharged id that returns at all returns None;    *)
(* it fails to return only when the connection cannot be opened.           *)
DischargedIdStaysRemoved ==
    /\ (lastOp = "discharge" /\ lastFail = "none" /\ lastArg.animal_id \in DOMAIN before.rows) =>
           /\ lastExc = NoExc
           /\ lastRet = RetBool(TRUE)
           /\ lastArg.animal_id \notin DOMAIN rows
           /\ lastArg.animal_id \in discharged
    /\ discharged \cap DOMAIN rows = {}
    /\ (lastOp = "get" /\ lastArg.animal_id \in discharged) =>
           /\ lastExc = NoExc => lastRet = RetNone
           /\ lastFail # "connect" => lastExc = NoExc

(* C7: discharge_animal of an id that matches no row returns False,        *)
(* raises nothing, and leaves the rows, the id counter and the table as    *)
(* they were.                                                              *)
C7_DischargeUnknownId ==
    (lastOp = "discharge" /\ lastArg.animal_id \notin DOMAIN before.rows) =>
        /\ lastExc = NoExc
        /\ lastRet = RetBool(FALSE)
        /\ rows = before.rows
        /\ seq = before.seq
        /\ table = before.table

(* The part of C7 that holds of the code: the table is left as it was and  *)
(* True is never returned; the call fails to return False only when the    *)
(* connection cannot be opened.                                            *)
UnknownIdDischargeChangesNothing ==
    (lastOp = "discharge" /\ lastArg.animal_id \notin DOMAIN before.rows) =>
        /\ rows = before.rows
        /\ seq = before.seq
        /\ table = before.table
        /\ lastExc = NoExc => lastRet = RetBool(FALSE)
        /\ lastFail # "connect" => lastExc = NoExc

(* C8: initialization makes the table exist and is idempotent: a later     *)
(* initialization on the same storage leaves every row and the id counter  *)
(* as they were, keeps the table, and when the storage works raises        *)
(* nothing.                                                                *)
C8_InitializeIdempotent ==
    lastOp = "init" =>
        /\ rows = before.rows
        /\ seq = before.seq
        /\ before.table = "EXISTS" => table = "EXISTS"
        /\ lastFail = "none" => (lastExc = NoExc /\ table = "EXISTS" /\ stores)

C8_Witness ==
    /\ lastOp = "init"
    /\ lastFail = "none"
    /\ lastExc = NoExc
    /\ before.table = "EXISTS"
    /\ before.stores
    /\ rows # NoRows
    /\ discharged # {}

(* C9: Animal.validate returns True exactly when species, name, owner and  *)
(* checkup_reason are non-empty and age is not zero; it raises nothing     *)
(* and leaves the Animal as it was.                                        *)
C9_ValidateIffAllTruthy ==
    lastOp = "validate" =>
        /\ lastRet = RetBool(FieldsFilled(lastArg))
        /\ lastExc = NoExc
        /\ animal = lastArg

C9_Witness ==
    /\ lastOp = "validate"
    /\ lastArg.age = -1
    /\ lastArg.name = "Rex"
    /\ lastRet = RetBool(TRUE)

(* C10: when the storage fails during initialization (at the connect, at   *)
(* the CREATE TABLE or at its commit), the construction raises instead of  *)
(* returning, and yields no store object.                                  *)
C10_InitFailureRaises ==
    (lastOp = "init" /\ lastFail # "none") =>
        /\ lastExc # NoExc
        /\ lastRet = Raised
        /\ stores = before.stores

C10_Witness ==
    /\ lastOp = "init"
    /\ lastFail = "execute"
    /\ lastExc = SqliteError
    /\ ~stores
    /\ table = "ABSENT"

====
